---------------------------- MODULE Spec2Model ----------------------------
(***************************************************************************)
(* Model of the four CRUD sections of the "Gestion Educativa" front end    *)
(* (Estudiantes, Cursos, Profesores, Inscripciones): the React state of    *)
(* one mounted section, the requests it has in flight, the REST server     *)
(* that answers them, and the timers that clear its notice.                *)
(*                                                                         *)
(* JavaScript values are tagged records (Str, Num, Null) so that a form    *)
(* field may hold a string or a number, as it does in the code.  A string  *)
(* is a sequence of pieces; where the code looks at characters the pieces  *)
(* are single characters.                                                  *)
(***************************************************************************)
EXTENDS Integers, Sequences, FiniteSets, TLC

---------------------------------------------------------------------------
(* Program constants: the limits written in the handleChange functions *)

DniMax == 8
NameMax == 50
EmailMax == 100
TelMax == 20
NombreCursoMax == 50
DescMax == 200
NotaMin == 0
NotaMax == 10

---------------------------------------------------------------------------
(* JavaScript values *)

Null == [t |-> "null", v |-> 0]
Str(s) == [t |-> "string", v |-> s]
Num(n) == [t |-> "number", v |-> n]
NaN == [t |-> "NaN", v |-> 0]
Undefined == [t |-> "undefined", v |-> 0]
EmptyStr == Str(<< >>)

\* JavaScript truthiness of a primitive value: if (editing), {editing && ...}, x || y
Truthy(x) ==
    CASE x.t = "null" -> FALSE
      [] x.t = "NaN" -> FALSE
      [] x.t = "undefined" -> FALSE
      [] x.t = "string" -> x.v # << >>
      [] x.t = "number" -> x.v # 0
      [] OTHER -> TRUE

\* a || b
JsOr(a, b) == IF Truthy(a) THEN a ELSE b

Min(a, b) == IF a <= b THEN a ELSE b
Max(a, b) == IF a >= b THEN a ELSE b

---------------------------------------------------------------------------
(* Character classes of the regular expressions in handleChange *)

Digits == {"0", "1", "2", "3", "4", "5", "6", "7", "8", "9"}
Letters ==
    {"a", "b", "c", "d", "e", "f", "g", "h", "i", "j", "k", "l", "m",
     "n", "o", "p", "q", "r", "s", "t", "u", "v", "w", "x", "y", "z",
     "A", "B", "C", "D", "E", "F", "G", "H", "I", "J", "K", "L", "M",
     "N", "O", "P", "Q", "R", "S", "T", "U", "V", "W", "X", "Y", "Z"}
Spaces == {" ", "\t", "\n"}
\* [a-zA-Z0-9._%+-]
EmailLocalChars == Letters \cup Digits \cup {".", "_", "%", "+", "-"}
\* [a-zA-Z0-9.-]
EmailDomainChars == Letters \cup Digits \cup {".", "-"}

\* String.prototype.substring(0, n)
Substring0(s, n) == SubSeq(s, 1, Min(n, Len(s)))

IsDigit(c) == c \in Digits
IsNameChar(c) == c \in Letters \cup Spaces

\* value.replace(/[^0-9]/g, '')
StripNonDigits(s) == SelectSeq(s, IsDigit)
\* value.replace(/[^a-zA-Z\s]/g, '')
StripNonLetters(s) == SelectSeq(s, IsNameChar)

\* The lengths of the matches of  [^a-zA-Z0-9._%+-]+@[a-zA-Z0-9.-]+\.[a-zA-Z]{2,}
\* that start at position i of s, as triples <<a, b, c>>: a characters outside
\* the local class, "@", b domain characters, ".", c letters.
EmailMatches(s, i) ==
    {m \in (1..Len(s)) \X (1..Len(s)) \X (2..Len(s)) :
        LET a == m[1]
            b == m[2]
            c == m[3]
        IN /\ i + a + 1 + b + 1 + c - 1 <= Len(s)
           /\ \A k \in i..(i + a - 1) : s[k] \notin EmailLocalChars
           /\ s[i + a] = "@"
           /\ \A k \in (i + a + 1)..(i + a + b) : s[k] \in EmailDomainChars
           /\ s[i + a + b + 1] = "."
           /\ \A k \in (i + a + b + 2)..(i + a + b + 1 + c) : s[k] \in Letters}

\* The match the greedy, backtracking engine reports at i: the longest first
\* part, then the longest domain, then the longest run of letters.
EmailMatchLen(s, i) ==
    LET ms == EmailMatches(s, i)
        best == CHOOSE m \in ms : \A n \in ms :
                    \/ m[1] > n[1]
                    \/ (m[1] = n[1] /\ m[2] > n[2])
                    \/ (m[1] = n[1] /\ m[2] = n[2] /\ m[3] >= n[3])
    IN IF ms = {} THEN 0 ELSE best[1] + 1 + best[2] + 1 + best[3]

RECURSIVE StripEmailFrom(_, _)
StripEmailFrom(s, i) ==
    IF i > Len(s) THEN << >>
    ELSE LET n == EmailMatchLen(s, i)
         IN IF n > 0 THEN StripEmailFrom(s, i + n)
            ELSE << s[i] >> \o StripEmailFrom(s, i + 1)

\* value.replace(/[^a-zA-Z0-9._%+-]+@[a-zA-Z0-9.-]+\.[a-zA-Z]{2,}/g, '')
StripEmail(s) == StripEmailFrom(s, 1)

DigitVal(c) ==
    CASE c = "0" -> 0 [] c = "1" -> 1 [] c = "2" -> 2 [] c = "3" -> 3
      [] c = "4" -> 4 [] c = "5" -> 5 [] c = "6" -> 6 [] c = "7" -> 7
      [] c = "8" -> 8 [] c = "9" -> 9

RECURSIVE DecimalValue(_)
DecimalValue(s) ==
    IF s = << >> THEN 0
    ELSE 10 * DecimalValue(SubSeq(s, 1, Len(s) - 1)) + DigitVal(s[Len(s)])

\* parseInt on a string of digits: NaN when there is none
ParseInt(s) == IF s = << >> THEN NaN ELSE Num(DecimalValue(s))

\* Math.max(0, Math.min(10, x)): NaN stays NaN
ClampGrade(x) == IF x.t = "NaN" THEN NaN ELSE Num(Max(NotaMin, Min(NotaMax, x.v)))

---------------------------------------------------------------------------
(* The four sections, their collections and their forms *)

Sections == {"estudiantes", "cursos", "profesores", "inscripciones"}

\* The collection a section manages: the path of its api.get/post/put/delete
Url(s) ==
    CASE s = "estudiantes" -> "/estudiantes"
      [] s = "cursos" -> "/cursos"
      [] s = "profesores" -> "/profesores"
      [] s = "inscripciones" -> "/cursos-estudiantes"

\* The other collections a section reads on mount, to fill its selectors
AuxUrls(s) ==
    CASE s = "cursos" -> {"/profesores"}
      [] s = "inscripciones" -> {"/cursos", "/estudiantes"}
      [] OTHER -> {}

\* The keys of the useState initial value of form
FormFields(s) ==
    CASE s = "estudiantes" -> {"dni", "nombre", "apellido", "email"}
      [] s = "cursos" -> {"nombre", "descripcion", "profesorId"}
      [] s = "profesores" ->
             {"dni", "nombre", "apellido", "email", "profesion", "telefono"}
      [] s = "inscripciones" -> {"cursoId", "estudianteId", "nota", "fecha"}

\* The form as useState creates it and as handleSubmit resets it
EmptyForm(s) == [f \in FormFields(s) |-> EmptyStr]

\* The fields rendered as select: their value is the id of a menu item
SelectFields(s) ==
    CASE s = "cursos" -> {"profesorId"}
      [] s = "inscripciones" -> {"cursoId", "estudianteId"}
      [] OTHER -> {}

\* The collection whose entities are the menu items of a select field
SelectSource(f) ==
    CASE f = "profesorId" -> "/profesores"
      [] f = "cursoId" -> "/cursos"
      [] f = "estudianteId" -> "/estudiantes"

\* The fields rendered as text inputs
TextInputs(s) == FormFields(s) \ SelectFields(s)

\* The inputs marked required, every input of every form, text or select: the
\* browser does not fire onSubmit while one of them is empty
RequiredInputs(s) == FormFields(s)

\* Whether the section renders the Cancelar button of the form
HasCancelButton(s) == s # "cursos"

\* The value the section's timers and its initial state give to error
InitialError(s) == IF s = "inscripciones" THEN EmptyStr ELSE Null
TimerClearsTo(s) == IF s \in {"cursos", "inscripciones"} THEN EmptyStr ELSE Null

---------------------------------------------------------------------------
(* handleChange: the value stored for an input *)

\* A handleChange of Estudiantes without the substring(0, 8) of the dni
NormalizeEstudianteDniUncut(name, value) ==
    CASE name = "dni" -> Str(StripNonDigits(value.v))
      [] name \in {"nombre", "apellido"} ->
             Str(Substring0(StripNonLetters(value.v), NameMax))
      [] name = "email" -> Str(Substring0(StripEmail(value.v), EmailMax))
      [] OTHER -> value

\* Estudiantes.handleChange, the switch on name
NormalizeEstudiante(name, value) ==
    CASE name = "dni" -> Str(Substring0(StripNonDigits(value.v), DniMax))
      [] name \in {"nombre", "apellido"} ->
             Str(Substring0(StripNonLetters(value.v), NameMax))
      [] name = "email" -> Str(Substring0(StripEmail(value.v), EmailMax))
      [] OTHER -> value

\* Profesores.handleChange, the switch on name
NormalizeProfesor(name, value) ==
    CASE name = "dni" -> Str(Substring0(StripNonDigits(value.v), DniMax))
      [] name \in {"nombre", "profesion", "apellido"} ->
             Str(StripNonLetters(value.v))
      [] name = "email" -> Str(Substring0(StripEmail(value.v), EmailMax))
      [] name = "telefono" -> Str(Substring0(StripNonDigits(value.v), TelMax))
      [] OTHER -> value

\* Cursos.handleChange, the switch on name: for nombre the second assignment
\* starts again from value, so the result of the replace is dropped
NormalizeCurso(name, value) ==
    CASE name = "nombre" -> Str(Substring0(value.v, NombreCursoMax))
      [] name = "descripcion" -> Str(Substring0(value.v, DescMax))
      [] OTHER -> value

\* parseInt(newValue) || '', without the Math.max and Math.min
NormalizeNotaUnclamped(s) == JsOr(ParseInt(StripNonDigits(s)), EmptyStr)

\* Math.max(0, Math.min(10, parseInt(newValue))) || ''
NormalizeNota(s) == JsOr(ClampGrade(ParseInt(StripNonDigits(s))), EmptyStr)

\* Inscripciones.handleChange, the switch on name
NormalizeInscripcion(name, value) ==
    CASE name = "nota" -> NormalizeNota(value.v)
      [] OTHER -> value

Normalize(s, name, value) ==
    CASE s = "estudiantes" -> NormalizeEstudiante(name, value)
      [] s = "profesores" -> NormalizeProfesor(name, value)
      [] s = "cursos" -> NormalizeCurso(name, value)
      [] s = "inscripciones" -> NormalizeInscripcion(name, value)

\* { ...form, [name]: newValue }
SetField(f, name, newValue) ==
    [k \in DOMAIN f \cup {name} |-> IF k = name THEN newValue ELSE f[k]]

---------------------------------------------------------------------------
(* handleSearchChange: the search fields above the table *)

\* The keys of the useState initial value of search; Estudiantes has none
SearchFields(s) ==
    CASE s = "estudiantes" -> {}
      [] s = "profesores" ->
             {"dni", "nombre", "apellido", "email", "profesion", "telefono"}
      [] s = "cursos" -> {"nombre", "descripcion", "profesorId"}
      [] s = "inscripciones" -> {"curso", "estudiante", "nota"}

EmptySearch(s) == [f \in SearchFields(s) |-> EmptyStr]

\* Profesores.handleSearchChange, the switch on name
NormalizeSearchProfesor(name, value) ==
    CASE name = "dni" -> Str(Substring0(StripNonDigits(value.v), DniMax))
      [] name \in {"nombre", "profesion", "apellido"} ->
             Str(StripNonLetters(value.v))
      [] name = "email" -> Str(Substring0(StripEmail(value.v), EmailMax))
      [] name = "telefono" -> Str(Substring0(StripNonDigits(value.v), TelMax))
      [] OTHER -> value

\* Cursos.handleSearchChange, the switch on name
NormalizeSearchCurso(name, value) ==
    CASE name = "nombre" -> Str(Substring0(StripNonLetters(value.v), NombreCursoMax))
      [] name = "descripcion" -> Str(Substring0(value.v, DescMax))
      [] OTHER -> value

\* Inscripciones.handleSearchChange, the switch on name
NormalizeSearchInscripcion(name, value) ==
    CASE name = "nota" -> NormalizeNota(value.v)
      [] name \in {"curso", "estudiante"} ->
             Str(Substring0(StripNonLetters(value.v), NameMax))
      [] OTHER -> value

NormalizeSearch(s, name, value) ==
    CASE s = "profesores" -> NormalizeSearchProfesor(name, value)
      [] s = "cursos" -> NormalizeSearchCurso(name, value)
      [] s = "inscripciones" -> NormalizeSearchInscripcion(name, value)

---------------------------------------------------------------------------
(* The Filter View: the rows of the table *)

UpperCase ==
    <<"A", "B", "C", "D", "E", "F", "G", "H", "I", "J", "K", "L", "M",
      "N", "O", "P", "Q", "R", "S", "T", "U", "V", "W", "X", "Y", "Z">>
LowerCase ==
    <<"a", "b", "c", "d", "e", "f", "g", "h", "i", "j", "k", "l", "m",
      "n", "o", "p", "q", "r", "s", "t", "u", "v", "w", "x", "y", "z">>

\* String.prototype.toLowerCase()
ToLowerCase(str) ==
    [i \in 1..Len(str) |->
        IF \E k \in 1..26 : UpperCase[k] = str[i]
        THEN LowerCase[CHOOSE k \in 1..26 : UpperCase[k] = str[i]]
        ELSE str[i]]

\* String.prototype.includes(part)
Includes(str, part) ==
    \E k \in 0..(Len(str) - Len(part)) : SubSeq(str, k + 1, k + Len(part)) = part

\* Number.prototype.toString() of a natural number
RECURSIVE NumberToString(_)
NumberToString(n) ==
    LET d == <<"0", "1", "2", "3", "4", "5", "6", "7", "8", "9">>
    IN IF n < 10 THEN <<d[n + 1]>> ELSE NumberToString(n \div 10) \o <<d[(n % 10) + 1]>>

\* String(x) of a string or a number
JsToString(x) == IF x.t = "number" THEN NumberToString(x.v) ELSE x.v

\* a.toLowerCase().includes(b.toLowerCase())
IncludesIgnoringCase(a, b) == Includes(ToLowerCase(a.v), ToLowerCase(b.v))

\* A filter that compares without toLowerCase()
FilteredProfesoresCaseSensitive(l, q) ==
    SelectSeq(l, LAMBDA profesor :
        /\ Includes(profesor.dni.v, q.dni.v)
        /\ Includes(profesor.nombre.v, q.nombre.v)
        /\ Includes(profesor.apellido.v, q.apellido.v)
        /\ Includes(profesor.email.v, q.email.v)
        /\ Includes(profesor.profesion.v, q.profesion.v)
        /\ Includes(profesor.telefono.v, q.telefono.v))

\* filteredProfesores
FilteredProfesores(l, q) ==
    SelectSeq(l, LAMBDA profesor :
        /\ IncludesIgnoringCase(profesor.dni, q.dni)
        /\ IncludesIgnoringCase(profesor.nombre, q.nombre)
        /\ IncludesIgnoringCase(profesor.apellido, q.apellido)
        /\ IncludesIgnoringCase(profesor.email, q.email)
        /\ IncludesIgnoringCase(profesor.profesion, q.profesion)
        /\ IncludesIgnoringCase(profesor.telefono, q.telefono))

\* filteredCursos: curso.profesor?.id.toString() is undefined without a teacher
FilteredCursos(l, q) ==
    SelectSeq(l, LAMBDA curso :
        /\ IncludesIgnoringCase(curso.nombre, q.nombre)
        /\ IncludesIgnoringCase(curso.descripcion, q.descripcion)
        /\ \/ q.profesorId = EmptyStr
           \/ /\ curso.profesor # Null
              /\ Str(NumberToString(curso.profesor.id.v)) = q.profesorId)

\* A filter that hides the first of the rows it finds
FilteredInscripcionesSkipsOne(l, q) ==
    LET found ==
            SelectSeq(l, LAMBDA inscripcion :
                /\ \/ q.curso = EmptyStr
                   \/ IncludesIgnoringCase(inscripcion.curso.nombre, q.curso)
                /\ \/ q.estudiante = EmptyStr
                   \/ IncludesIgnoringCase(
                          Str(inscripcion.estudiante.nombre.v \o <<" ">>
                              \o inscripcion.estudiante.apellido.v), q.estudiante)
                /\ \/ q.nota = EmptyStr
                   \/ Includes(JsToString(inscripcion.nota), JsToString(q.nota)))
    IN IF q = [f \in DOMAIN q |-> EmptyStr] \/ found = << >> THEN found ELSE Tail(found)

\* filteredInscripciones
FilteredInscripciones(l, q) ==
    SelectSeq(l, LAMBDA inscripcion :
        /\ \/ q.curso = EmptyStr
           \/ IncludesIgnoringCase(inscripcion.curso.nombre, q.curso)
        /\ \/ q.estudiante = EmptyStr
           \/ IncludesIgnoringCase(
                  Str(inscripcion.estudiante.nombre.v \o <<" ">>
                      \o inscripcion.estudiante.apellido.v), q.estudiante)
        /\ \/ q.nota = EmptyStr
           \/ Includes(JsToString(inscripcion.nota), JsToString(q.nota)))

\* The list a section maps to the rows of its table; Estudiantes has no
\* search panel and maps estudiantes itself
Filtered(s, l, q) ==
    CASE s = "estudiantes" -> l
      [] s = "profesores" -> FilteredProfesores(l, q)
      [] s = "cursos" -> FilteredCursos(l, q)
      [] s = "inscripciones" -> FilteredInscripciones(l, q)

---------------------------------------------------------------------------
(* Bounds of the model *)

\* How many create, update and delete requests the user issues in a run
MaxOps == 2

\* The user acts while fewer requests than this are in flight
MaxInFlight == 2

\* How many requests fail in a run
MaxFails == 2

---------------------------------------------------------------------------
(* The REST server: the collections and the read models it answers with *)

\* The entities of the collections a section only reads
AuxData(url) ==
    CASE url = "/profesores" ->
             << [id |-> Num(1), nombre |-> Str(<<"A", "n", "a">>), apellido |-> Str(<<"P", "a", "z">>)] >>
      [] url = "/cursos" -> << [id |-> Num(2), nombre |-> Str(<<"A", "l", "g">>)] >>
      [] url = "/estudiantes" ->
             << [id |-> Num(5), nombre |-> Str(<<"L", "u">>), apellido |-> Str(<<"G", "i">>)] >>

Elems(q) == {q[i] : i \in 1..Len(q)}

\* The entity of a collection a foreign key refers to, null when there is none
Lookup(url, key) ==
    LET hits == {e \in Elems(AuxData(url)) : e.id = key}
    IN IF hits = {} THEN Null ELSE CHOOSE e \in hits : TRUE

\* The read model the server keeps for a write request
ServerRead(url, id, body) ==
    CASE url = "/estudiantes" ->
             [k \in {"id"} \cup FormFields("estudiantes") |->
                 IF k = "id" THEN Num(id) ELSE body[k]]
      [] url = "/profesores" ->
             [k \in {"id"} \cup FormFields("profesores") |->
                 IF k = "id" THEN Num(id) ELSE body[k]]
      [] url = "/cursos" ->
             [id |-> Num(id), nombre |-> body.nombre,
              descripcion |-> body.descripcion,
              profesor |-> Lookup("/profesores", body.profesorId)]
      [] url = "/cursos-estudiantes" ->
             [id |-> Num(id),
              curso |-> Lookup("/cursos", body.cursoId),
              estudiante |-> Lookup("/estudiantes", body.estudianteId),
              nota |-> body.nota,
              fecha |-> Str(body.fecha.v \o <<"T", "00:00:00Z">>)]

\* The collection as the server holds it when a run starts: one entity
InitialServer(s) ==
    CASE s = "estudiantes" ->
             1 :> [id |-> Num(1), dni |-> Str(<<"2">>), nombre |-> Str(<<"A">>),
                   apellido |-> Str(<<"B">>), email |-> Str(<<"c">>)]
      [] s = "profesores" ->
             1 :> [id |-> Num(1), dni |-> Str(<<"2">>), nombre |-> Str(<<"A">>),
                   apellido |-> Str(<<"B">>), email |-> Str(<<"c">>),
                   profesion |-> Str(<<"D">>), telefono |-> Str(<<"3">>)]
      [] s = "cursos" ->
             1 :> [id |-> Num(1), nombre |-> Str(<<"A", "1">>),
                   descripcion |-> Str(<<"b">>),
                   profesor |-> Lookup("/profesores", Num(1))]
      [] s = "inscripciones" ->
             1 :> [id |-> Num(1), curso |-> Lookup("/cursos", Num(2)),
                   estudiante |-> Lookup("/estudiantes", Num(5)),
                   nota |-> Num(8),
                   fecha |-> Str(<<"2024-03-01", "T", "00:00:00Z">>)]

\* The response data of a list read: the entities in id order
ListOf(f) ==
    LET ids == DOMAIN f
        n == Cardinality(ids)
        ord == CHOOSE g \in [1..n -> ids] :
                   \A i, j \in 1..n : i < j => g[i] < g[j]
    IN [i \in 1..n |-> f[ord[i]]]

Remove(f, id) == [i \in DOMAIN f \ {id} |-> f[i]]

---------------------------------------------------------------------------
(* The messages the handlers give to setError *)

\* String(x), as the + operator applies it to an operand
ToPieces(x) ==
    CASE x.t = "string" -> x.v
      [] x.t = "undefined" -> <<"undefined">>
      [] x.t = "null" -> <<"null">>

\* a + b on strings
Concat(a, b) == Str(ToPieces(a) \o ToPieces(b))

\* error.message of a rejected axios call
ErrorMessage == Str(<<"Request failed">>)

\* error.response?.data of a rejected axios call: undefined when the request
\* got no response, the body of the response otherwise
ErrorBodies == {Undefined, Str(<<"Conflict">>)}

\* Only the catch of a delete reads error.response
ErrorBodiesOf(r) == IF r.method = "DELETE" THEN ErrorBodies ELSE {Undefined}

SaveErrorNotice(s) ==
    CASE s = "estudiantes" ->
             Str(<<"Error al guardar estudiante. Verifica que los datos sean correctos.">>)
      [] s = "profesores" ->
             Str(<<"Error al guardar profesor. Verifica que los datos sean correctos.">>)
      [] s = "cursos" ->
             Str(<<"Error al guardar curso. Verifica que los datos sean correctos.">>)
      [] s = "inscripciones" ->
             Concat(Str(<<"Error al guardar inscripcion: ">>), ErrorMessage)

\* The notice a failed list read of url leaves, given the notice before it
LoadErrorNotice(s, url, before) ==
    CASE s = "estudiantes" ->
             Str(<<"Error al cargar estudiantes. Verifica la conexion.">>)
      [] s = "profesores" -> before
      [] s = "cursos" /\ url = "/cursos" ->
             Str(<<"Error al cargar cursos. Verifica que los datos sean correctos.">>)
      [] s = "cursos" /\ url = "/profesores" ->
             Str(<<"Error al cargar profesores. Verifica que los datos sean correctos.">>)
      [] s = "inscripciones" /\ url = "/cursos-estudiantes" ->
             Concat(Str(<<"Error al cargar inscripciones: ">>), ErrorMessage)
      [] s = "inscripciones" /\ url = "/cursos" ->
             Concat(Str(<<"Error al cargar cursos: ">>), ErrorMessage)
      [] s = "inscripciones" /\ url = "/estudiantes" ->
             Concat(Str(<<"Error al cargar estudiantes: ">>), ErrorMessage)

\* setError(null), setError('') of handleSubmit after a successful save
SaveOkNotice(s) == IF s = "inscripciones" THEN EmptyStr ELSE Null

DeleteOkNotice(s) ==
    CASE s = "estudiantes" -> Null
      [] s = "profesores" -> Str(<<"Profesor eliminado con exito">>)
      [] s = "cursos" -> Str(<<"Curso eliminado con exito">>)
      [] s = "inscripciones" -> Str(<<"Inscripcion eliminada con exito">>)

\* The notice of a failed delete whose error carries the response data d
DeleteErrorNotice(s, d) ==
    CASE s = "estudiantes" ->
             Str(<<"Error al eliminar estudiante. Verifica que el ID sea correcto.">>)
      [] s = "profesores" ->
             JsOr(Concat(Str(<<"No se pudo eliminar el profesor: ">>), d),
                  Str(<<"Error desconocido">>))
      [] s = "cursos" ->
             Concat(Str(<<"No se pudo eliminar el curso: ">>), JsOr(d, ErrorMessage))
      [] s = "inscripciones" ->
             Concat(Str(<<"No se pudo eliminar la inscripcion: ">>), JsOr(d, ErrorMessage))

---------------------------------------------------------------------------
(* handleEdit: the form an entity of the list is loaded into *)

\* str.split(sep)[0]
SplitFirst(q, sep) ==
    IF \E i \in 1..Len(q) : q[i] = sep
    THEN SubSeq(q, 1, (CHOOSE i \in 1..Len(q) :
                          q[i] = sep /\ \A j \in 1..(i - 1) : q[j] # sep) - 1)
    ELSE q

\* A handleEdit that copies fecha as the server sent it
EditFormKeepsTime(s, e) ==
    CASE s \in {"estudiantes", "profesores"} -> e
      [] s = "cursos" ->
             [nombre |-> e.nombre, descripcion |-> e.descripcion,
              profesorId |-> IF e.profesor # Null THEN e.profesor.id ELSE EmptyStr]
      [] s = "inscripciones" ->
             [cursoId |-> e.curso.id, estudianteId |-> e.estudiante.id,
              nota |-> e.nota, fecha |-> e.fecha]

\* handleEdit's argument to setForm
EditForm(s, e) ==
    CASE s \in {"estudiantes", "profesores"} -> e
      [] s = "cursos" ->
             [nombre |-> e.nombre, descripcion |-> e.descripcion,
              profesorId |-> IF e.profesor # Null THEN e.profesor.id ELSE EmptyStr]
      [] s = "inscripciones" ->
             [cursoId |-> e.curso.id, estudianteId |-> e.estudiante.id,
              nota |-> e.nota, fecha |-> Str(SplitFirst(e.fecha.v, "T"))]

---------------------------------------------------------------------------
(* State *)

VARIABLES
    sec,         \* the section that is mounted
    mounted,     \* whether its mount effect has run
    list,        \* the List Cache: estudiantes, cursos, profesores or inscripciones
    aux,         \* the lists that fill its selectors, by collection
    editing,     \* the editing target id, null in create mode
    form,        \* the form payload
    search,      \* the search fields of the Filter View
    error,       \* the notice
    open,        \* whether the delete dialog is open
    idEliminar,  \* the id the dialog was opened for
    timeoutId,   \* the timer handle kept in state
    effTimer,    \* the timer of the error-clearing effect of Inscripciones
    timers,      \* the pending setTimeout callbacks, each clears the notice
    net,         \* the requests in flight and the responses not yet handled
    srv,         \* the section's collection on the server, by id
    nextId,      \* the id the server gives to the next created entity
    nmut,        \* create, update and delete requests issued so far
    nfail,       \* requests that failed so far
    isApiOnline, \* App: what the status indicator shows
    checks       \* App: the connectivity checks in the order they were issued, each
                 \* in flight ("sent"), answered ("ok") or failed ("err")

vars ==
    <<sec, mounted, list, aux, editing, form, search, error, open, idEliminar,
      timeoutId, effTimer, timers, net, srv, nextId, nmut, nfail,
      isApiOnline, checks>>

appVars == <<isApiOnline, checks>>
formVars == <<editing, form>>
dialogVars == <<open, idEliminar>>
noticeVars == <<error, timeoutId, effTimer, timers>>
serverVars == <<srv, nextId>>
boundVars == <<nmut, nfail>>

\* The least positive number outside S
NextFree(S) ==
    CHOOSE n \in 1..(Cardinality(S) + 1) :
        n \notin S /\ \A m \in 1..(n - 1) : m \in S

\* A request as api.get/post/put/delete sends it; tmo is the timeoutId the
\* handler that awaits it has in its closure; after is where the call stands
\* in its handler: null in the mount effect, the write the handler awaited
\* before it called load...() otherwise
Request(rid, method, url, id, body, tmo, after) ==
    [rid |-> rid, method |-> method, url |-> url, id |-> id, body |-> body,
     tmo |-> tmo, after |-> after, stage |-> "sent", data |-> Null]

\* The write a handler awaited, as the reload it calls next stands after it:
\* its method and the id of the entity it created, replaced or removed
Awaited(r) ==
    [method |-> r.method, id |-> IF r.method = "POST" THEN r.data.id ELSE r.id]

Rids == {r.rid : r \in net}

\* The timer handles some state or closure still names
TimerRefs ==
    {x.v : x \in {y \in {timeoutId, effTimer} \cup {r.tmo : r \in net} :
                     y.t = "number"}}

Init ==
    /\ sec \in Sections
    /\ mounted = FALSE
    /\ list = << >>
    /\ aux = [u \in AuxUrls(sec) |-> << >>]
    /\ editing = Null
    /\ form = EmptyForm(sec)
    /\ search = EmptySearch(sec)
    /\ error = InitialError(sec)
    /\ open = FALSE
    /\ idEliminar = Null
    /\ timeoutId = Null
    /\ effTimer = Null
    /\ timers = {}
    /\ net = {}
    /\ srv = InitialServer(sec)
    /\ nextId = 2
    /\ nmut = 0
    /\ nfail = 0
    /\ isApiOnline = FALSE
    /\ checks = << >>

\* The render that follows a handler that leaves newErr in error and tms as
\* the pending timers.  In Inscripciones the effect on [error] runs when the
\* notice changed: its cleanup clears the timer of its previous run, and a
\* truthy notice gets a new timer.
Render(newErr, tms) ==
    LET cleaned == IF effTimer.t = "number" THEN tms \ {effTimer.v} ELSE tms
        t == NextFree(tms \cup TimerRefs)
    IN /\ error' = newErr
       /\ IF sec = "inscripciones" /\ newErr # error
          THEN IF Truthy(newErr)
               THEN timers' = cleaned \cup {t} /\ effTimer' = Num(t)
               ELSE timers' = cleaned /\ effTimer' = Null
          ELSE timers' = tms /\ effTimer' = effTimer

\* setError(msg) followed by setTimeout(() => setError(null), 5000) whose
\* handle is dropped, as Estudiantes does
NoticeWithLooseTimer(msg) ==
    /\ Render(msg, timers \cup {NextFree(timers \cup TimerRefs)})
    /\ timeoutId' = timeoutId

\* setError(msg); clearTimeout(timeoutId); setTimeoutId(setTimeout(...)):
\* the timeoutId cleared is the one of the closure that sent the request
NoticeWithKeptTimer(msg, closureTimeoutId) ==
    LET kept == IF closureTimeoutId.t = "number"
                THEN timers \ {closureTimeoutId.v} ELSE timers
        t == NextFree(timers \cup TimerRefs)
    IN /\ timeoutId' = Num(t)
       /\ Render(msg, kept \cup {t})

\* setError(msg) alone
NoticeOnly(msg) ==
    /\ Render(msg, timers)
    /\ timeoutId' = timeoutId

---------------------------------------------------------------------------
(* The user's inputs *)

\* The inputs of the form in the order the page shows them
FieldOrder(s) ==
    CASE s = "estudiantes" -> <<"dni", "nombre", "apellido", "email">>
      [] s = "profesores" ->
             <<"dni", "nombre", "apellido", "email", "profesion", "telefono">>
      [] s = "cursos" -> <<"nombre", "descripcion", "profesorId">>
      [] s = "inscripciones" -> <<"cursoId", "estudianteId", "nota", "fecha">>

\* What the user types into a text input of the form
Typed(name) ==
    CASE name = "dni" -> Str(<<"2", "a">>)
      [] name = "nombre" -> Str(<<"A", "1">>)
      [] name = "apellido" -> Str(<<"B">>)
      [] name = "email" -> Str(<<"c">>)
      [] name = "profesion" -> Str(<<"D">>)
      [] name = "telefono" -> Str(<<"3">>)
      [] name = "descripcion" -> Str(<<"b">>)
      [] name = "nota" -> Str(<<"8">>)
      [] name = "fecha" -> Str(<<"2024-03-01">>)

\* The user fills the text inputs from the first to the last, and the
\* selects from the first to the last: a text input is typed into once the
\* text inputs above it hold something
TypedInputs(s) ==
    {<<FieldOrder(s)[i], Typed(FieldOrder(s)[i])>> :
        i \in {j \in 1..Len(FieldOrder(s)) :
                  /\ FieldOrder(s)[j] \notin SelectFields(s)
                  /\ \A k \in 1..(j - 1) :
                         FieldOrder(s)[k] \in SelectFields(s) \/ Truthy(form[FieldOrder(s)[k]])}}

\* What the user picks in the selects: the id of a menu item
PickedInputs(s) ==
    UNION {{<<FieldOrder(s)[i], e.id>> : e \in Elems(aux[SelectSource(FieldOrder(s)[i])])} :
              i \in {j \in 1..Len(FieldOrder(s)) :
                        /\ FieldOrder(s)[j] \in SelectFields(s)
                        /\ \A k \in 1..(j - 1) :
                               FieldOrder(s)[k] \notin SelectFields(s)
                                   \/ Truthy(form[FieldOrder(s)[k]])}}

\* What the user types into the search field that filters by name, and the
\* same field emptied again
SearchInputs(s) ==
    CASE s = "estudiantes" -> {}
      [] s = "inscripciones" -> {<<"curso", Str(<<"N", "1">>)>>, <<"curso", EmptyStr>>}
      [] OTHER -> {<<"nombre", Str(<<"N", "1">>)>>, <<"nombre", EmptyStr>>}

\* The longest raw input enumerated character by character
MaxLen == 2

\* The characters of the raw inputs: digits, letters, a blank, a sign, a
\* decimal point and a punctuation mark
InputChars == {"0", "1", "5", "a", "Z", " ", "!", "-", "."}

\* Longer raw inputs: the scenarios of the specification, numerals with a
\* decimal part, and inputs longer than the limits of dni and of the names
LongInputs ==
    {<<"1", "2", "a", "3", "!", "4">>,
     <<"1", "2", "3", "4", "5", "6", "7", "8", "9">>,
     <<"1", "a", "2", "3", " ", "4", "5", "6", "7", "8", "9">>,
     <<"1", "0", ".", "5">>, <<"-", "0", ".", "5">>, <<"1", "0", "0">>,
     <<"J", "o", "s", "e", "-", "3", " ", "P", "a", "z">>,
     [i \in 1..(NameMax + 1) |-> "a"]}

\* e.target.value of a text input: what the user typed or pasted
RawInputs == UNION {[1..k -> InputChars] : k \in 0..MaxLen} \cup LongInputs

---------------------------------------------------------------------------
(* The section's handlers *)

\* useEffect(() => { load...() }, []): one list read per collection
Mount ==
    /\ ~mounted
    /\ mounted' = TRUE
    /\ LET urls == {Url(sec)} \cup AuxUrls(sec)
           rid == CHOOSE g \in [urls -> 1..Cardinality(urls)] :
                      /\ g[Url(sec)] = 1
                      /\ \A u, w \in urls : u # w => g[u] # g[w]
       IN net' = {Request(rid[u], "GET", u, Null, Null, Null, Null) : u \in urls}
    /\ UNCHANGED <<appVars, sec, search, list, aux, formVars, dialogVars, noticeVars, serverVars, boundVars>>

\* handleChange: the page is behind the dialog while it is open
HandleChange(name, value) ==
    /\ mounted /\ ~open
    /\ form' = SetField(form, name, Normalize(sec, name, value))
    /\ UNCHANGED <<appVars, sec, search, mounted, list, aux, editing, dialogVars, noticeVars, net,
                   serverVars, boundVars>>

\* handleSearchChange: setSearch(prev => ({ ...prev, [name]: newValue }))
HandleSearchChange(name, value) ==
    /\ mounted /\ ~open
    /\ name \in SearchFields(sec)
    /\ search' = SetField(search, name, NormalizeSearch(sec, name, value))
    /\ UNCHANGED <<appVars, sec, mounted, list, aux, formVars, dialogVars, noticeVars, net,
                   serverVars, boundVars>>

\* A form whose selects are not marked required
HandleSubmitSelectsOptional ==
    /\ mounted /\ ~open
    /\ \A f \in TextInputs(sec) : Truthy(form[f])
    /\ nmut < MaxOps
    /\ net' = net \cup
           {IF Truthy(editing)
            THEN Request(NextFree(Rids), "PUT", Url(sec), editing, form, Null, Null)
            ELSE Request(NextFree(Rids), "POST", Url(sec), Null, form, Null, Null)}
    /\ nmut' = nmut + 1
    /\ nfail' = nfail
    /\ UNCHANGED <<appVars, sec, search, mounted, list, aux, formVars, dialogVars, noticeVars, serverVars>>

\* A handleSubmit that creates whatever the mode is
HandleSubmitAlwaysPost ==
    /\ mounted /\ ~open
    /\ \A f \in RequiredInputs(sec) : Truthy(form[f])
    /\ nmut < MaxOps
    /\ net' = net \cup {Request(NextFree(Rids), "POST", Url(sec), Null, form, Null, Null)}
    /\ nmut' = nmut + 1
    /\ nfail' = nfail
    /\ UNCHANGED <<appVars, sec, search, mounted, list, aux, formVars, dialogVars, noticeVars, serverVars>>

\* handleSubmit up to its await: PUT to the editing target, POST otherwise
HandleSubmit ==
    /\ mounted /\ ~open
    /\ \A f \in RequiredInputs(sec) : Truthy(form[f])
    /\ nmut < MaxOps
    /\ net' = net \cup
           {IF Truthy(editing)
            THEN Request(NextFree(Rids), "PUT", Url(sec), editing, form, Null, Null)
            ELSE Request(NextFree(Rids), "POST", Url(sec), Null, form, Null, Null)}
    /\ nmut' = nmut + 1
    /\ nfail' = nfail
    /\ UNCHANGED <<appVars, sec, search, mounted, list, aux, formVars, dialogVars, noticeVars, serverVars>>

\* A handleSubmit that resets the form and stays in edit mode
SaveOkKeepsEditing(r) ==
    /\ r \in net /\ r.method \in {"POST", "PUT"} /\ r.stage = "ok"
    /\ net' = (net \ {r}) \cup
           {Request(NextFree(Rids \ {r.rid}), "GET", Url(sec), Null, Null, Null, Awaited(r))}
    /\ form' = EmptyForm(sec)
    /\ editing' = editing
    /\ NoticeOnly(SaveOkNotice(sec))
    /\ UNCHANGED <<appVars, sec, search, mounted, list, aux, dialogVars, serverVars, boundVars>>

\* A handleSubmit that does not reload the list
SaveOkNoReload(r) ==
    /\ r \in net /\ r.method \in {"POST", "PUT"} /\ r.stage = "ok"
    /\ net' = net \ {r}
    /\ form' = EmptyForm(sec)
    /\ editing' = Null
    /\ NoticeOnly(SaveOkNotice(sec))
    /\ UNCHANGED <<appVars, sec, search, mounted, list, aux, dialogVars, serverVars, boundVars>>

\* handleSubmit after its await resolved: reload, reset the form, leave edit mode
SaveOk(r) ==
    /\ r \in net /\ r.method \in {"POST", "PUT"} /\ r.stage = "ok"
    /\ net' = (net \ {r}) \cup
           {Request(NextFree(Rids \ {r.rid}), "GET", Url(sec), Null, Null, Null, Awaited(r))}
    /\ form' = EmptyForm(sec)
    /\ editing' = Null
    /\ NoticeOnly(SaveOkNotice(sec))
    /\ UNCHANGED <<appVars, sec, search, mounted, list, aux, dialogVars, serverVars, boundVars>>

\* A catch of handleSubmit that resets the form as the success path does
SaveErrClearsForm(r) ==
    /\ r \in net /\ r.method \in {"POST", "PUT"} /\ r.stage = "err"
    /\ net' = net \ {r}
    /\ form' = EmptyForm(sec)
    /\ editing' = Null
    /\ IF sec = "estudiantes"
       THEN NoticeWithLooseTimer(SaveErrorNotice(sec))
       ELSE NoticeOnly(SaveErrorNotice(sec))
    /\ UNCHANGED <<appVars, sec, search, mounted, list, aux, dialogVars, serverVars, boundVars>>

\* handleSubmit's catch
SaveErr(r) ==
    /\ r \in net /\ r.method \in {"POST", "PUT"} /\ r.stage = "err"
    /\ net' = net \ {r}
    /\ IF sec = "estudiantes"
       THEN NoticeWithLooseTimer(SaveErrorNotice(sec))
       ELSE NoticeOnly(SaveErrorNotice(sec))
    /\ UNCHANGED <<appVars, sec, search, mounted, list, aux, formVars, dialogVars, serverVars, boundVars>>

\* handleEdit, from the Editar button of a row of the table
HandleEdit(e) ==
    /\ mounted /\ ~open
    /\ e \in Elems(Filtered(sec, list, search))
    /\ editing' = e.id
    /\ form' = EditForm(sec, e)
    /\ UNCHANGED <<appVars, sec, search, mounted, list, aux, dialogVars, noticeVars, net, serverVars, boundVars>>

\* The Cancelar button of the form, rendered while editing is truthy
CancelEdit ==
    /\ mounted /\ ~open
    /\ HasCancelButton(sec)
    /\ Truthy(editing)
    /\ editing' = Null
    /\ UNCHANGED <<appVars, sec, search, mounted, list, aux, form, dialogVars, noticeVars, net,
                   serverVars, boundVars>>

\* A handleDelete that deletes at once, as the sections did before they had
\* a dialog
HandleDeleteDirect(id) ==
    /\ mounted /\ ~open
    /\ id \in {e.id : e \in Elems(Filtered(sec, list, search))}
    /\ nmut < MaxOps
    /\ net' = net \cup {Request(NextFree(Rids), "DELETE", Url(sec), id, Null, Null, Null)}
    /\ nmut' = nmut + 1
    /\ nfail' = nfail
    /\ UNCHANGED <<appVars, sec, search, mounted, list, aux, formVars, dialogVars, noticeVars, serverVars>>

\* handleDelete, from the Eliminar button of a row: capture the id, open the dialog
HandleDelete(id) ==
    /\ mounted /\ ~open
    /\ id \in {e.id : e \in Elems(Filtered(sec, list, search))}
    /\ idEliminar' = id
    /\ open' = TRUE
    /\ UNCHANGED <<appVars, sec, search, mounted, list, aux, formVars, noticeVars, net, serverVars, boundVars>>

\* A dialog whose Cancelar also leaves edit mode and resets the form
CancelDeleteResetsForm ==
    /\ open
    /\ open' = FALSE
    /\ form' = EmptyForm(sec)
    /\ editing' = Null
    /\ UNCHANGED <<appVars, sec, search, mounted, list, aux, idEliminar, noticeVars, net,
                   serverVars, boundVars>>

\* The Cancelar button and the onClose of the dialog
CancelDelete ==
    /\ open
    /\ open' = FALSE
    /\ UNCHANGED <<appVars, sec, search, mounted, list, aux, formVars, idEliminar, noticeVars, net,
                   serverVars, boundVars>>

\* An eliminar... that calls load...() without awaiting the delete
ConfirmDeleteReloadsAtOnce ==
    /\ open
    /\ nmut < MaxOps
    /\ LET del == Request(NextFree(Rids), "DELETE", Url(sec), idEliminar, Null,
                          IF sec = "estudiantes" THEN Null ELSE timeoutId, Null)
       IN net' = net \cup
              {del, Request(NextFree(Rids \cup {del.rid}), "GET", Url(sec), Null, Null,
                            Null, Awaited(del))}
    /\ nmut' = nmut + 1
    /\ nfail' = nfail
    /\ UNCHANGED <<appVars, sec, search, mounted, list, aux, formVars, dialogVars, noticeVars, serverVars>>

\* An eliminarInscripcion that deletes at the collection of the courses
ConfirmDeleteAtCourses ==
    /\ open
    /\ nmut < MaxOps
    /\ net' = net \cup
           {Request(NextFree(Rids), "DELETE",
                    IF sec = "inscripciones" THEN "/cursos" ELSE Url(sec), idEliminar, Null,
                    IF sec = "estudiantes" THEN Null ELSE timeoutId, Null)}
    /\ nmut' = nmut + 1
    /\ nfail' = nfail
    /\ UNCHANGED <<appVars, sec, search, mounted, list, aux, formVars, dialogVars, noticeVars, serverVars>>

\* eliminarEstudiante, eliminarCurso, eliminarProfesor, eliminarInscripcion up
\* to the await, from the Eliminar button of the open dialog
ConfirmDelete ==
    /\ open
    /\ nmut < MaxOps
    /\ net' = net \cup
           {Request(NextFree(Rids), "DELETE", Url(sec), idEliminar, Null,
                    IF sec = "estudiantes" THEN Null ELSE timeoutId, Null)}
    /\ nmut' = nmut + 1
    /\ nfail' = nfail
    /\ UNCHANGED <<appVars, sec, search, mounted, list, aux, formVars, dialogVars, noticeVars, serverVars>>

\* eliminar... after its await resolved
DeleteOk(r) ==
    /\ r \in net /\ r.method = "DELETE" /\ r.stage = "ok"
    /\ net' = (net \ {r}) \cup
           {Request(NextFree(Rids \ {r.rid}), "GET", Url(sec), Null, Null, Null, Awaited(r))}
    /\ open' = FALSE
    /\ IF sec = "estudiantes"
       THEN NoticeOnly(DeleteOkNotice(sec))
       ELSE NoticeWithKeptTimer(DeleteOkNotice(sec), r.tmo)
    /\ UNCHANGED <<appVars, sec, search, mounted, list, aux, formVars, idEliminar, serverVars, boundVars>>

\* A catch of eliminar... that leaves the dialog as it is
DeleteErrKeepsOpen(r) ==
    /\ r \in net /\ r.method = "DELETE" /\ r.stage = "err"
    /\ net' = net \ {r}
    /\ open' = open
    /\ IF sec = "estudiantes"
       THEN NoticeWithLooseTimer(DeleteErrorNotice(sec, r.data))
       ELSE NoticeWithKeptTimer(DeleteErrorNotice(sec, r.data), r.tmo)
    /\ UNCHANGED <<appVars, sec, search, mounted, list, aux, formVars, idEliminar, serverVars, boundVars>>

\* eliminar...'s catch
DeleteErr(r) ==
    /\ r \in net /\ r.method = "DELETE" /\ r.stage = "err"
    /\ net' = net \ {r}
    /\ open' = FALSE
    /\ IF sec = "estudiantes"
       THEN NoticeWithLooseTimer(DeleteErrorNotice(sec, r.data))
       ELSE NoticeWithKeptTimer(DeleteErrorNotice(sec, r.data), r.tmo)
    /\ UNCHANGED <<appVars, sec, search, mounted, list, aux, formVars, idEliminar, serverVars, boundVars>>

\* A load... that drops its response while another read of the same
\* collection is in flight
LoadOkDropsOverlapped(r) ==
    /\ r \in net /\ r.method = "GET" /\ r.stage = "ok"
    /\ net' = net \ {r}
    /\ IF \E q \in net \ {r} : q.method = "GET" /\ q.url = r.url
       THEN list' = list /\ aux' = aux
       ELSE IF r.url = Url(sec)
            THEN list' = r.data /\ aux' = aux
            ELSE list' = list /\ aux' = [aux EXCEPT ![r.url] = r.data]
    /\ UNCHANGED <<appVars, sec, search, mounted, formVars, dialogVars, noticeVars, serverVars, boundVars>>

\* load... after its await resolved: the list is replaced by the response data
LoadOk(r) ==
    /\ r \in net /\ r.method = "GET" /\ r.stage = "ok"
    /\ net' = net \ {r}
    /\ IF r.url = Url(sec)
       THEN list' = r.data /\ aux' = aux
       ELSE list' = list /\ aux' = [aux EXCEPT ![r.url] = r.data]
    /\ UNCHANGED <<appVars, sec, search, mounted, formVars, dialogVars, noticeVars, serverVars, boundVars>>

\* A catch of load... that empties the list
LoadErrClearsList(r) ==
    /\ r \in net /\ r.method = "GET" /\ r.stage = "err"
    /\ net' = net \ {r}
    /\ list' = << >>
    /\ IF sec = "estudiantes"
       THEN NoticeWithLooseTimer(LoadErrorNotice(sec, r.url, error))
       ELSE NoticeOnly(LoadErrorNotice(sec, r.url, error))
    /\ UNCHANGED <<appVars, sec, search, mounted, aux, formVars, dialogVars, serverVars, boundVars>>

\* load...'s catch
LoadErr(r) ==
    /\ r \in net /\ r.method = "GET" /\ r.stage = "err"
    /\ net' = net \ {r}
    /\ IF sec = "estudiantes"
       THEN NoticeWithLooseTimer(LoadErrorNotice(sec, r.url, error))
       ELSE NoticeOnly(LoadErrorNotice(sec, r.url, error))
    /\ UNCHANGED <<appVars, sec, search, mounted, list, aux, formVars, dialogVars, serverVars, boundVars>>

\* A setTimeout callback: setError(null), setError('')
TimerFires(t) ==
    /\ t \in timers
    /\ Render(TimerClearsTo(sec), timers \ {t})
    /\ timeoutId' = timeoutId
    /\ UNCHANGED <<appVars, sec, search, mounted, list, aux, formVars, dialogVars, net, serverVars, boundVars>>

\* onClose of the Alert above the search panel: setError(null)
DismissNotice ==
    /\ mounted /\ ~open
    /\ sec # "estudiantes"
    /\ Truthy(error)
    /\ NoticeOnly(Null)
    /\ UNCHANGED <<appVars, sec, search, mounted, list, aux, formVars, dialogVars, net, serverVars, boundVars>>

---------------------------------------------------------------------------
(* The server's steps *)

\* Whether the server can carry out a request: an update or a delete needs
\* an entity with that id, an enrollment needs its course and its student
Accepts(r) ==
    /\ r.method \in {"PUT", "DELETE"} => (r.id.t = "number" /\ r.id.v \in DOMAIN srv)
    /\ (r.method \in {"POST", "PUT"} /\ r.url = "/cursos-estudiantes") =>
           /\ Lookup("/cursos", r.body.cursoId) # Null
           /\ Lookup("/estudiantes", r.body.estudianteId) # Null

\* The server carries out a request and answers it
ServerOk(r) ==
    /\ r \in net /\ r.stage = "sent"
    /\ Accepts(r)
    /\ LET created == ServerRead(r.url, nextId, r.body)
           updated == ServerRead(r.url, r.id.v, r.body)
           answer(d) == (net \ {r}) \cup {[r EXCEPT !.stage = "ok", !.data = d]}
       IN CASE r.method = "GET" ->
                  /\ net' = answer(IF r.url = Url(sec) THEN ListOf(srv)
                                   ELSE AuxData(r.url))
                  /\ UNCHANGED serverVars
            [] r.method = "POST" ->
                  /\ net' = answer(created)
                  /\ srv' = (nextId :> created) @@ srv
                  /\ nextId' = nextId + 1
            [] r.method = "PUT" ->
                  /\ net' = answer(updated)
                  /\ srv' = [srv EXCEPT ![r.id.v] = updated]
                  /\ nextId' = nextId
            [] r.method = "DELETE" ->
                  /\ net' = answer(Null)
                  /\ srv' = Remove(srv, r.id.v)
                  /\ nextId' = nextId
    /\ UNCHANGED <<appVars, sec, search, mounted, list, aux, formVars, dialogVars, noticeVars, boundVars>>

\* The request fails: the server refuses it, or it gets no response
ServerFail(r, d) ==
    /\ r \in net /\ r.stage = "sent"
    /\ nfail < MaxFails
    /\ nfail' = nfail + 1
    /\ nmut' = nmut
    /\ net' = (net \ {r}) \cup {[r EXCEPT !.stage = "err", !.data = d]}
    /\ UNCHANGED <<appVars, sec, search, mounted, list, aux, formVars, dialogVars, noticeVars,
                   serverVars>>

---------------------------------------------------------------------------
(* App: the connectivity checks behind the status indicator *)

\* The connectivity checks a run issues
MaxChecks == 4

\* What App leaves alone: the state of the section it renders
sectionVars ==
    <<sec, mounted, list, aux, editing, form, search, error, open, idEliminar,
      timeoutId, effTimer, timers, net, srv, nextId, nmut, nfail>>

\* checkApiConnection up to its await: api.get('/cursos')
CheckApiConnection ==
    /\ checks' = Append(checks, "sent")
    /\ UNCHANGED <<isApiOnline, sectionVars>>

\* The effect of App on mount: the first check, and the interval is set
AppMount == checks = << >> /\ CheckApiConnection

\* setInterval(checkApiConnection, 5000): the interval fires
IntervalFires ==
    /\ checks # << >>
    /\ Len(checks) < MaxChecks
    /\ CheckApiConnection

\* checkApiConnection after its await resolved: the request got a response,
\* which is an object, so the else branch of if (response) is never taken
CheckOk(i) ==
    /\ i \in DOMAIN checks
    /\ checks[i] = "sent"
    /\ isApiOnline' = TRUE
    /\ checks' = [checks EXCEPT ![i] = "ok"]
    /\ UNCHANGED sectionVars

\* checkApiConnection's catch: the request failed
CheckErr(i) ==
    /\ i \in DOMAIN checks
    /\ checks[i] = "sent"
    /\ isApiOnline' = FALSE
    /\ checks' = [checks EXCEPT ![i] = "err"]
    /\ UNCHANGED sectionVars

NextApp ==
    \/ AppMount
    \/ IntervalFires
    \/ \E i \in DOMAIN checks : CheckOk(i)
    \/ \E i \in DOMAIN checks : CheckErr(i)

SpecApp == Init /\ [][NextApp]_vars

---------------------------------------------------------------------------
(* Specification *)

\* The user acts while few requests are in flight
Quiet == Cardinality(net) < MaxInFlight

Next ==
    \/ Mount
    \/ Quiet /\ \E p \in TypedInputs(sec) \cup PickedInputs(sec) : HandleChange(p[1], p[2])
    \/ Quiet /\ \E p \in SearchInputs(sec) : HandleSearchChange(p[1], p[2])
    \/ Quiet /\ HandleSubmit
    \/ Quiet /\ \E e \in Elems(list) : HandleEdit(e)
    \/ Quiet /\ CancelEdit
    \/ Quiet /\ \E e \in Elems(list) : HandleDelete(e.id)
    \/ Quiet /\ CancelDelete
    \/ Quiet /\ ConfirmDelete
    \/ Quiet /\ DismissNotice
    \/ \E r \in net : SaveOk(r)
    \/ \E r \in net : SaveErr(r)
    \/ \E r \in net : DeleteOk(r)
    \/ \E r \in net : DeleteErr(r)
    \/ \E r \in net : LoadOk(r)
    \/ \E r \in net : LoadErr(r)
    \/ \E t \in timers : TimerFires(t)
    \/ \E r \in net : ServerOk(r)
    \/ \E r \in net : \E d \in ErrorBodiesOf(r) : ServerFail(r, d)

Spec == Init /\ [][Next]_vars

\* The runs in which every list read succeeds: only writes fail, and the
\* catch of load...() never runs
NextReadsOk ==
    \/ Mount
    \/ Quiet /\ \E p \in TypedInputs(sec) \cup PickedInputs(sec) : HandleChange(p[1], p[2])
    \/ Quiet /\ \E p \in SearchInputs(sec) : HandleSearchChange(p[1], p[2])
    \/ Quiet /\ HandleSubmit
    \/ Quiet /\ \E e \in Elems(list) : HandleEdit(e)
    \/ Quiet /\ CancelEdit
    \/ Quiet /\ \E e \in Elems(list) : HandleDelete(e.id)
    \/ Quiet /\ CancelDelete
    \/ Quiet /\ ConfirmDelete
    \/ Quiet /\ DismissNotice
    \/ \E r \in net : SaveOk(r)
    \/ \E r \in net : SaveErr(r)
    \/ \E r \in net : DeleteOk(r)
    \/ \E r \in net : DeleteErr(r)
    \/ \E r \in net : LoadOk(r)
    \/ \E t \in timers : TimerFires(t)
    \/ \E r \in net : ServerOk(r)
    \/ \E r \in {q \in net : q.method # "GET"} : \E d \in ErrorBodiesOf(r) : ServerFail(r, d)

SpecReadsOk == Init /\ [][NextReadsOk]_vars

---------------------------------------------------------------------------
(* What a step does to the requests *)

\* The requests a step sends
Issued == {r \in net' : r.stage = "sent"} \ net

\* The responses a step's handler takes up, after its await
Handled == {r \in net : r.stage # "sent"} \ net'

Writes == {"POST", "PUT", "DELETE"}

\* The list reads of the section's own collection among the requests sent
OwnReads == {g \in Issued : g.method = "GET" /\ g.url = Url(sec)}

\* The ids of the entities in a list
IdsOf(q) == {q[i].id : i \in DOMAIN q}

AllEmpty(f) == \A k \in DOMAIN f : f[k] = EmptyStr

---------------------------------------------------------------------------
(* The delete confirmation flow *)

\* C1: a DELETE request is sent only by a step that starts with the dialog
\* open, and the step that opens the dialog (handleDelete) captures the id of
\* a row of the list, sends no request and changes nothing else of the page.
C1_DeleteOnlyFromOpenDialog ==
    [][/\ \A r \in Issued : r.method = "DELETE" => open
       /\ (~open /\ open') =>
              /\ Issued = {}
              /\ net' = net
              /\ idEliminar' \in IdsOf(list)
              /\ UNCHANGED <<list, formVars, error, serverVars>>]_vars

\* C1: the dialog is open for the id of a row and its confirm action has
\* sent a DELETE for that id
C1_Witness ==
    /\ open
    /\ \E r \in net : r.method = "DELETE" /\ r.stage = "sent" /\ r.id = idEliminar

\* C2: a confirm click (a write sent while the dialog is open) sends exactly
\* one request, a DELETE for the id the dialog holds, and the step that takes
\* up the response of a DELETE, success or failure, leaves the dialog closed.
C2_OneDeletePerConfirmThenClosed ==
    [][/\ (open /\ nmut' = nmut + 1) =>
              /\ Cardinality(Issued) = 1
              /\ \A r \in Issued :
                     r.method = "DELETE" /\ r.url = Url(sec) /\ r.id = idEliminar
       /\ (\E r \in Handled : r.method = "DELETE") => ~open']_vars

\* C2: a delete failed, its notice is up and the dialog is closed
C2_Witness ==
    /\ ~open
    /\ nfail > 0
    /\ \E d \in ErrorBodies : error = DeleteErrorNotice(sec, d)

---------------------------------------------------------------------------
(* The List Cache and its refresh *)

\* C3: in a run where every list read succeeds, whenever no request is in
\* flight the List Cache is the server's collection.
C3_ListIsServerCollectionWhenIdle ==
    (mounted /\ net = {}) => list = ListOf(srv)

\* C4: the mount sends exactly one read of the section's own collection;
\* every later step sends one such read for each successful write whose
\* response it takes up, so none after a failed write and none otherwise.
C4_ReadOnMountAndAfterEachWrite ==
    [][IF ~mounted
       THEN Cardinality(OwnReads) = 1
       ELSE Cardinality(OwnReads) =
                Cardinality({r \in Handled : r.method \in Writes /\ r.stage = "ok"})]_vars

\* C4: a refresh is in flight after a successful delete, in a run where a
\* request failed and left no read behind
C4_Witness ==
    /\ nfail > 0
    /\ \E g \in net : g.method = "GET" /\ g.after # Null /\ g.after.method = "DELETE"

---------------------------------------------------------------------------
(* Submit *)

C6_SaveSuccessResetsForm ==
    [][(\E r \in Handled : r.method \in {"POST", "PUT"} /\ r.stage = "ok") =>
           /\ DOMAIN form' = FormFields(sec)
           /\ AllEmpty(form')
           /\ editing' = Null]_vars

\* C6: an update succeeded, its refresh is in flight and the form is reset
C6_Witness ==
    /\ AllEmpty(form)
    /\ editing = Null
    /\ \E g \in net : g.method = "GET" /\ g.after # Null /\ g.after.method = "PUT"

\* C7, as stated: a read of the own collection after the mount is sent only
\* by a step that takes up the success response of a write, and when the
\* refresh after a create completes the list holds the created entity, when
\* the refresh after a delete completes the list does not hold the deleted id.
C7_RefreshShowsTheWrite ==
    [][/\ (mounted /\ OwnReads # {}) =>
              \E r \in Handled : r.method \in Writes /\ r.stage = "ok"
       /\ \A g \in Handled :
              (g.method = "GET" /\ g.stage = "ok" /\ g.after # Null) =>
                  /\ g.after.method = "POST" => g.after.id \in IdsOf(list')
                  /\ g.after.method = "DELETE" => g.after.id \notin IdsOf(list')]_vars

\* C7, amended: the created entity is in the list when the refresh
\* completes unless it has been deleted on the server by then.
C7_RefreshShowsTheWriteUnlessDeleted ==
    [][/\ (mounted /\ OwnReads # {}) =>
              \E r \in Handled : r.method \in Writes /\ r.stage = "ok"
       /\ \A g \in Handled :
              (g.method = "GET" /\ g.stage = "ok" /\ g.after # Null) =>
                  /\ g.after.method = "POST" =>
                         \/ g.after.id \in IdsOf(list')
                         \/ g.after.id.v \notin DOMAIN srv
                  /\ g.after.method = "DELETE" => g.after.id \notin IdsOf(list')]_vars

\* C7: the refreshes are over, the list holds the entity the server created
\* and no longer holds entity 1, which was deleted
C7_Witness ==
    /\ net = {}
    /\ nextId = 3
    /\ IdsOf(list) = {Num(2)}
    /\ DOMAIN srv = {2}

\* C8: the step that takes up the failure of a create or an update leaves the
\* form and the editing target id as they were and sends no request.
C8_SaveFailureKeepsForm ==
    [][(\E r \in Handled : r.method \in {"POST", "PUT"} /\ r.stage = "err") =>
           /\ UNCHANGED formVars
           /\ Issued = {}]_vars

\* C8: an update failed: its notice is up, the form still holds the payload
\* and the section is still in edit mode
C8_Witness ==
    /\ nfail > 0
    /\ error = SaveErrorNotice(sec)
    /\ editing # Null
    /\ \A f \in RequiredInputs(sec) : Truthy(form[f])
    /\ \A r \in net : r.method = "GET" => r.after = Null

---------------------------------------------------------------------------
(* Cancelling an edit *)

\* C9: the Cancel of the form (the step that leaves edit mode without taking
\* up a response) leaves every form field empty and the editing target id
\* null, sends no request and leaves the list as it was.
C9_CancelEmptiesForm ==
    [][(Truthy(editing) /\ editing' = Null /\ Handled = {}) =>
           /\ AllEmpty(form')
           /\ Issued = {}
           /\ list' = list]_vars

\* C10: the payload of a POST in flight has no id field.
C10_PostCarriesNoId ==
    \A r \in net : r.method = "POST" => "id" \notin DOMAIN r.body

---------------------------------------------------------------------------
(* The frame of the List Cache *)

\* The successful reads of the section's own collection a step takes up
OwnLoads == {r \in Handled : r.method = "GET" /\ r.url = Url(sec) /\ r.stage = "ok"}

\* C11: a step that takes up a successful read of the own collection leaves
\* the response data as the list; every other step (a failed read, a field
\* or search change, edit, cancel, submit, delete request, confirm, timer)
\* leaves the list as it was.
C11_ListChangesOnlyOnOwnLoad ==
    [][/\ \A r \in OwnLoads : list' = r.data
       /\ OwnLoads = {} => list' = list]_vars

\* C11: the list holds two entities, read after a create, and a later read
\* of the collection failed and left its notice
C11_Witness ==
    /\ Len(list) = 2
    /\ Truthy(error)
    /\ error = LoadErrorNotice(sec, Url(sec), error)
    /\ sec # "profesores"

\* The reads of the section's own collection among a set of requests
OwnReadsIn(n) == {r \in n : r.method = "GET" /\ r.url = Url(sec)}

\* C12: while two reads of the own collection are in flight, the step that
\* takes up the response of one of them, whichever was sent first, makes its
\* data the list and leaves the other read in flight, to be applied in turn.
C12_LastResponseWins ==
    [][\A r \in OwnLoads :
           Cardinality(OwnReadsIn(net)) >= 2 =>
               /\ list' = r.data
               /\ OwnReadsIn(net') = OwnReadsIn(net) \ {r}]_vars

\* C12: the read of the mount and the refresh after a create overlapped and
\* the response of the mount arrived last: both are done and the list is the
\* mount's data, without the created entity the server holds
C12_Witness ==
    /\ net = {}
    /\ nfail = 0
    /\ IdsOf(list) = {Num(1)}
    /\ DOMAIN srv = {1, 2}

---------------------------------------------------------------------------
(* Cancelling the delete dialog *)

\* C13: the step that closes the dialog without taking up a response (its
\* Cancelar button, its onClose) sends no request and leaves the list, the
\* form, the editing target id, the search fields and the notice with its
\* timers as they were.
C13_CancelDeleteOnlyCloses ==
    [][(open /\ ~open' /\ Handled = {}) =>
           /\ Issued = {}
           /\ net' = net
           /\ UNCHANGED <<list, aux, formVars, search, noticeVars, idEliminar,
                          serverVars>>]_vars

\* C13: the dialog was opened for entity 1 from edit mode and cancelled: it
\* is closed, no write was ever sent, and the form still holds the entity
C13_Witness ==
    /\ ~open
    /\ idEliminar = Num(1)
    /\ nmut = 0
    /\ editing = Num(1)
    /\ net = {}

---------------------------------------------------------------------------
(* The transient notice *)

\* C14: the step that takes up the response of a DELETE, success or
\* failure, leaves a non-empty notice.
C14_DeleteOutcomeSetsNotice ==
    [][(\E r \in Handled : r.method = "DELETE") => Truthy(error')]_vars

\* C15: at most one clear-timer is pending, so that the timer that clears a
\* notice is the one scheduled for it.
C15_OneClearTimerPending ==
    Cardinality(timers) <= 1

\* C16: while a notice is shown a clear-timer is pending, so that the notice
\* is cleared without the user dismissing it.
C16_NoticeHasClearTimer ==
    Truthy(error) => timers # {}

\* C17: the step that takes up a failed request (a list read, a create, an
\* update, a delete) leaves a non-empty notice.
C17_FailureSetsNotice ==
    [][(\E r \in Handled : r.stage = "err") => Truthy(error')]_vars

---------------------------------------------------------------------------
(* The form inputs on their own: a section that has mounted and loaded its
   lists, and a user who types or pastes any raw input into one text input
   of the form, again and again *)

InitInput ==
    /\ sec \in Sections
    /\ mounted = TRUE
    /\ list = ListOf(InitialServer(sec))
    /\ aux = [u \in AuxUrls(sec) |-> AuxData(u)]
    /\ editing = Null
    /\ form = EmptyForm(sec)
    /\ search = EmptySearch(sec)
    /\ error = InitialError(sec)
    /\ open = FALSE
    /\ idEliminar = Null
    /\ timeoutId = Null
    /\ effTimer = Null
    /\ timers = {}
    /\ net = {}
    /\ srv = InitialServer(sec)
    /\ nextId = 2
    /\ nmut = 0
    /\ nfail = 0
    /\ isApiOnline = FALSE
    /\ checks = << >>

\* The other inputs of the form are empty
OnlyInput(name) == \A k \in DOMAIN form \ {name} : form[k] = EmptyStr

\* What is typed into an input: the e-mail input gets the enumerated inputs
InputsOf(name) ==
    IF name = "email" THEN {v \in RawInputs : Len(v) <= MaxLen} ELSE RawInputs

NextInput ==
    \E name \in TextInputs(sec) : \E v \in InputsOf(name) :
        OnlyInput(name) /\ HandleChange(name, Str(v))

SpecInput == InitInput /\ [][NextInput]_vars

---------------------------------------------------------------------------
(* The number a grade input denotes: <input type="number"> holds a decimal
   numeral, an optional sign, digits, and an optional point with digits *)

Unsigned(v) == IF v # << >> /\ v[1] = "-" THEN Tail(v) ELSE v
DotAt(b) ==
    IF \E i \in 1..Len(b) : b[i] = "."
    THEN CHOOSE i \in 1..Len(b) : b[i] = "." /\ \A j \in 1..(i - 1) : b[j] # "."
    ELSE Len(b) + 1
IntPart(v) == SubSeq(Unsigned(v), 1, DotAt(Unsigned(v)) - 1)
FracPart(v) == SubSeq(Unsigned(v), DotAt(Unsigned(v)) + 1, Len(Unsigned(v)))
AllDigits(s) == \A i \in 1..Len(s) : s[i] \in Digits
NonZero(s) == \E i \in 1..Len(s) : s[i] # "0"
IsNumeral(v) ==
    /\ IntPart(v) # << >> /\ AllDigits(IntPart(v)) /\ AllDigits(FracPart(v))
    /\ DotAt(Unsigned(v)) <= Len(Unsigned(v)) => FracPart(v) # << >>

\* The numeral denotes a number below NotaMin or above NotaMax
OutsideGrades(v) ==
    /\ IsNumeral(v)
    /\ IF Unsigned(v) # v
       THEN NonZero(IntPart(v)) \/ NonZero(FracPart(v))
       ELSE \/ DecimalValue(IntPart(v)) > NotaMax
            \/ DecimalValue(IntPart(v)) = NotaMax /\ NonZero(FracPart(v))

InGrades(x) == x.t = "number" /\ x.v >= NotaMin /\ x.v <= NotaMax

\* C18: in the enrollment form, handleChange on nota with a numeral that
\* denotes a number outside [0,10] stores a number of [0,10], the input 15
\* is stored as 10, and after every change of a field the stored nota is
\* the empty string or a number of [0,10].
C18_StoredGradeIsClamped ==
    [][sec = "inscripciones" =>
          /\ \A v \in RawInputs :
                 (OutsideGrades(v) /\ HandleChange("nota", Str(v))) => InGrades(form'.nota)
          /\ HandleChange("nota", Str(<<"1", "5">>)) => form'.nota = Num(NotaMax)
          /\ form'.nota = EmptyStr \/ InGrades(form'.nota)]_vars

C18_Witness == sec = "inscripciones" /\ form.nota = Num(NotaMax) /\ form.fecha = EmptyStr

\* The digit characters of s, in their order
RECURSIVE DigitsOf(_)
DigitsOf(s) ==
    IF s = << >> THEN << >>
    ELSE IF Head(s) \in Digits THEN <<Head(s)>> \o DigitsOf(Tail(s))
         ELSE DigitsOf(Tail(s))

\* The first n elements of s, all of s when it has fewer
FirstN(s, n) == [i \in 1..(IF Len(s) < n THEN Len(s) ELSE n) |-> s[i]]

\* C19: handleChange on the dni input stores the digit characters of the raw
\* input in their order, cut to the first 8: no other character, at most 8
\* characters, and "12a3!4" is stored as "1234".
C19_DniIsDigitsCutToEight ==
    [][("dni" \in FormFields(sec)) =>
          /\ \A v \in RawInputs : HandleChange("dni", Str(v)) =>
                 /\ form'.dni = Str(FirstN(DigitsOf(v), DniMax))
                 /\ AllDigits(form'.dni.v)
                 /\ Len(form'.dni.v) <= DniMax
          /\ HandleChange("dni", Str(<<"1", "2", "a", "3", "!", "4">>)) =>
                 form'.dni = Str(<<"1", "2", "3", "4">>)]_vars

C19_Witness ==
    /\ sec = "estudiantes"
    /\ form.dni = Str(<<"1", "2", "3", "4", "5", "6", "7", "8">>)
    /\ form.nombre = EmptyStr

\* The name inputs of a section's form
NameFields(s) == FormFields(s) \cap {"nombre", "apellido", "profesion"}

OnlyLetters(x) == \A i \in 1..Len(x.v) : x.v[i] \in Letters \cup Spaces

\* C20: handleChange on a name input (nombre and apellido of a student or a
\* teacher, profesion of a teacher, nombre of a course) stores letters and
\* whitespace only.
C20_NamesAreLettersOnly ==
    [][\A name \in NameFields(sec) : \A v \in RawInputs :
          HandleChange(name, Str(v)) => OnlyLetters(form'[name])]_vars

---------------------------------------------------------------------------
(* Editing an enrollment *)

\* part is what comes before the first sep of whole, all of whole when it
\* has no sep
IsPartBefore(part, whole, sep) ==
    /\ \A i \in 1..Len(part) : part[i] # sep
    /\ \/ part = whole
       \/ /\ Len(part) < Len(whole)
          /\ SubSeq(whole, 1, Len(part)) = part
          /\ whole[Len(part) + 1] = sep

\* C21: handleEdit on an enrollment of the list puts curso.id in cursoId,
\* estudiante.id in estudianteId, nota in nota and the part of fecha before
\* "T" in fecha, makes the enrollment's id the editing target, and turns
\* curso.id 2, estudiante.id 5, fecha "2024-03-01T00:00:00Z" into cursoId 2,
\* estudianteId 5, fecha "2024-03-01".
C21_EditFlattensEnrollment ==
    [][sec = "inscripciones" =>
          \A e \in Elems(list) : (editing' = e.id /\ net' = net /\ HandleEdit(e)) =>
              /\ DOMAIN form' = {"cursoId", "estudianteId", "nota", "fecha"}
              /\ form'.cursoId = e.curso.id
              /\ form'.estudianteId = e.estudiante.id
              /\ form'.nota = e.nota
              /\ form'.fecha.t = "string"
              /\ IsPartBefore(form'.fecha.v, e.fecha.v, "T")
              /\ editing' = e.id
              /\ (/\ e.curso.id = Num(2)
                  /\ e.estudiante.id = Num(5)
                  /\ e.fecha = Str(<<"2024-03-01", "T", "00:00:00Z">>)) =>
                     /\ form'.cursoId = Num(2)
                     /\ form'.estudianteId = Num(5)
                     /\ form'.fecha = Str(<<"2024-03-01">>)]_vars

C21_Witness ==
    /\ sec = "inscripciones"
    /\ nmut = 0
    /\ editing = Num(1)
    /\ form = [cursoId |-> Num(2), estudianteId |-> Num(5), nota |-> Num(8),
               fecha |-> Str(<<"2024-03-01">>)]

---------------------------------------------------------------------------
(* The Filter View on its own: a section that holds any list of a few rows,
   and a user who changes the search fields *)

\* The longest list the section holds
MaxRows == 2

Teacher(n, nombre, apellido) == [id |-> Num(n), nombre |-> Str(nombre), apellido |-> Str(apellido)]

\* The teachers behind the selects of Cursos
Teachers == <<Teacher(1, <<"A", "n", "a">>, <<"P", "a", "z">>),
              Teacher(11, <<"L", "e", "o">>, <<"R", "u", "a">>)>>

\* Entities a list read can return
SampleRows(s) ==
    CASE s \in {"estudiantes", "profesores"} ->
             {[k \in {"id"} \cup FormFields(s) |-> r[k]] : r \in
                 {[id |-> Num(1), dni |-> Str(<<"1", "2">>), nombre |-> Str(<<"A", "n", "a">>),
                   apellido |-> Str(<<"P", "a", "z">>), email |-> Str(<<"a", "@", "b">>),
                   profesion |-> Str(<<"D", "r">>), telefono |-> Str(<<"3", "1">>)],
                  [id |-> Num(2), dni |-> Str(<<"2", "1">>), nombre |-> Str(<<"n", "A", "N">>),
                   apellido |-> Str(<<"a", "z">>), email |-> Str(<<"b", "@", "a">>),
                   profesion |-> Str(<<"r", "D">>), telefono |-> Str(<<"1", "3">>)],
                  [id |-> Num(3), dni |-> Str(<<"3">>), nombre |-> Str(<<"L", "u">>),
                   apellido |-> Str(<<"G", "i">>), email |-> Str(<<"c">>),
                   profesion |-> Str(<<"D">>), telefono |-> Str(<<"3">>)]}}
      [] s = "cursos" ->
             {[id |-> Num(1), nombre |-> Str(<<"A", "l", "g">>),
               descripcion |-> Str(<<"B", "1">>), profesor |-> Teachers[1]],
              [id |-> Num(2), nombre |-> Str(<<"l", "G">>),
               descripcion |-> Str(<<"b", "!">>), profesor |-> Teachers[2]],
              [id |-> Num(3), nombre |-> Str(<<"G", "e", "o">>),
               descripcion |-> Str(<<"1", "b">>), profesor |-> Null]}
      [] s = "inscripciones" ->
             {[id |-> Num(1),
               curso |-> [id |-> Num(2), nombre |-> Str(<<"A", "l", "g">>)],
               estudiante |-> [id |-> Num(5), nombre |-> Str(<<"L", "u">>),
                               apellido |-> Str(<<"G", "i">>)],
               nota |-> Num(10), fecha |-> Str(<<"2024-03-01", "T", "00:00:00Z">>)],
              [id |-> Num(2),
               curso |-> [id |-> Num(3), nombre |-> Str(<<"l", "G">>)],
               estudiante |-> [id |-> Num(6), nombre |-> Str(<<"A", "l">>),
                               apellido |-> Str(<<"U", "g">>)],
               nota |-> Num(1), fecha |-> Str(<<"2024-03-02", "T", "00:00:00Z">>)],
              [id |-> Num(3),
               curso |-> [id |-> Num(2), nombre |-> Str(<<"A", "l", "g">>)],
               estudiante |-> [id |-> Num(6), nombre |-> Str(<<"A", "l">>),
                               apellido |-> Str(<<"U", "g">>)],
               nota |-> Num(8), fecha |-> Str(<<"2024-03-03", "T", "00:00:00Z">>)]}

\* The lists of up to MaxRows different entities, in any order
SampleLists(s) ==
    UNION {{l \in [1..n -> SampleRows(s)] : \A i, j \in 1..n : i # j => l[i] # l[j]} :
              n \in 0..MaxRows}

\* What the user types into a search field, or picks in the search select
FilterInputs(name) ==
    CASE name \in {"dni", "telefono"} -> {<< >>, <<"1">>, <<"2", "1">>}
      [] name \in {"nombre", "curso"} -> {<< >>, <<"a">>, <<"L", "g">>}
      [] name \in {"apellido", "estudiante"} -> {<< >>, <<"A", "z">>, <<"u", " ", "g">>}
      [] name = "email" -> {<< >>, <<"B">>}
      [] name = "profesion" -> {<< >>, <<"d">>}
      [] name = "descripcion" -> {<< >>, <<"b">>, <<"B", "1">>}
      [] name = "profesorId" ->
             {<< >>} \cup {NumberToString(Teachers[i].id.v) : i \in DOMAIN Teachers}
      [] name = "nota" -> {<< >>, <<"1">>, <<"1", "0">>}

InitFilter ==
    /\ sec \in Sections
    /\ mounted = TRUE
    /\ list \in SampleLists(sec)
    /\ aux = [u \in AuxUrls(sec) |-> IF u = "/profesores" THEN Teachers ELSE AuxData(u)]
    /\ editing = Null
    /\ form = EmptyForm(sec)
    /\ search = EmptySearch(sec)
    /\ error = InitialError(sec)
    /\ open = FALSE
    /\ idEliminar = Null
    /\ timeoutId = Null
    /\ effTimer = Null
    /\ timers = {}
    /\ net = {}
    /\ srv = InitialServer(sec)
    /\ nextId = 2
    /\ nmut = 0
    /\ nfail = 0
    /\ isApiOnline = FALSE
    /\ checks = << >>

NextFilter ==
    \E name \in SearchFields(sec) : \E v \in FilterInputs(name) :
        HandleSearchChange(name, Str(v))

SpecFilter == InitFilter /\ [][NextFilter]_vars

\* The text of an entity that a search field is matched against
SearchedText(s, f, e) ==
    CASE s = "inscripciones" /\ f = "curso" -> e.curso.nombre.v
      [] s = "inscripciones" /\ f = "estudiante" ->
             e.estudiante.nombre.v \o <<" ">> \o e.estudiante.apellido.v
      [] s = "inscripciones" /\ f = "nota" -> NumberToString(e.nota.v)
      [] OTHER -> e[f].v

\* The same character, or the two cases of one letter
SameLetter(c, d) ==
    c = d \/ \E k \in 1..26 : {c, d} = {UpperCase[k], LowerCase[k]}

\* part occurs in text, whatever the case of the letters
ContainsIgnoringCase(text, part) ==
    \E off \in 0..(Len(text) - Len(part)) :
        \A i \in 1..Len(part) : SameLetter(text[off + i], part[i])

\* The condition of one search field on one entity
FieldAccepts(s, f, e, q) ==
    \/ q[f] = EmptyStr
    \/ IF f = "profesorId"
       THEN e.profesor # Null /\ e.profesor.id.v = DecimalValue(q[f].v)
       ELSE ContainsIgnoringCase(SearchedText(s, f, e), JsToString(q[f]))

\* The positions of the list whose entity every search field accepts
Accepted(s, l, q) ==
    {i \in 1..Len(l) : \A f \in SearchFields(s) : FieldAccepts(s, f, l[i], q)}

\* The k-th element of a set of numbers, counting from the smallest
Kth(S, k) == CHOOSE i \in S : Cardinality({j \in S : j < i}) = k - 1

\* C22: the rows shown are the entities of the list that every search field
\* accepts, in the order of the list: a text field accepts an entity whose
\* text contains it whatever the case, the teacher select of Cursos accepts
\* the courses of that teacher, an empty field accepts every entity; with
\* every search field empty the rows are the list.
C22_RowsAreTheAcceptedEntities ==
    LET shown == Filtered(sec, list, search)
        keep == Accepted(sec, list, search)
    IN /\ Len(shown) = Cardinality(keep)
       /\ \A k \in 1..Len(shown) : shown[k] = list[Kth(keep, k)]
       /\ search = EmptySearch(sec) => shown = list

C22_Witness ==
    /\ sec = "profesores"
    /\ Len(list) = 2
    /\ search.nombre = Str(<<"a">>) /\ search.dni = Str(<<"2", "1">>)
    /\ Len(Filtered(sec, list, search)) = 1
    /\ Filtered(sec, list, search)[1].nombre = Str(<<"n", "A", "N">>)

\* C23: filtering the rows shown with the same search fields gives the same
\* rows again.
C23_FilterIsIdempotent ==
    Filtered(sec, Filtered(sec, list, search), search) = Filtered(sec, list, search)

C23_Witness ==
    /\ sec = "inscripciones"
    /\ search.curso = Str(<<"L", "g">>) /\ search.nota = Num(1)
    /\ Len(list) = 2
    /\ Len(Filtered(sec, list, search)) = 2

---------------------------------------------------------------------------
(* The collections the Enrollments section reads and writes *)

\* C24: every request the Enrollments section issues to /cursos or to
\* /estudiantes is a GET, and every POST, PUT and DELETE it issues goes to
\* /cursos-estudiantes.
C24_EnrollmentsWriteOnlyTheirOwn ==
    [][sec = "inscripciones" =>
          \A r \in Issued :
              /\ r.url \in {"/cursos", "/estudiantes"} => r.method = "GET"
              /\ r.method \in Writes => r.url = "/cursos-estudiantes"]_vars

C24_Witness ==
    /\ sec = "inscripciones"
    /\ aux["/cursos"] # << >> /\ aux["/estudiantes"] # << >>
    /\ \E r \in net : r.method = "DELETE" /\ r.url = "/cursos-estudiantes"
    /\ \E r \in net : r.method = "POST" /\ r.url = "/cursos-estudiantes"

\* C25: every POST and PUT the Enrollments section issues to
\* /cursos-estudiantes carries a course id and a student id, neither of them
\* the empty string.
C25_EnrollmentCarriesBothIds ==
    [][sec = "inscripciones" =>
          \A r \in Issued :
              (r.method \in {"POST", "PUT"} /\ r.url = "/cursos-estudiantes") =>
                  /\ r.body.cursoId # EmptyStr /\ r.body.cursoId.t = "number"
                  /\ r.body.estudianteId # EmptyStr /\ r.body.estudianteId.t = "number"]_vars

C25_Witness ==
    /\ sec = "inscripciones"
    /\ \E r \in net :
           /\ r.method = "PUT" /\ r.stage = "sent"
           /\ r.body.cursoId = Num(2) /\ r.body.estudianteId = Num(5)
    /\ \E r \in net :
           /\ r.method = "POST" /\ r.stage = "sent"
           /\ r.body.cursoId = Num(2) /\ r.body.estudianteId = Num(5)

---------------------------------------------------------------------------
(* Responses that arrive after the user has moved on *)

\* C26: a step that handles the outcome of a DELETE while the dialog is
\* open for another id leaves the dialog open.
C26_DeleteOutcomeKeepsOtherDialog ==
    [][\A r \in Handled :
          (r.method = "DELETE" /\ open /\ idEliminar # r.id) => open']_vars

\* C27: a step that handles the success of a save leaves the form and the
\* editing target as they are when the user has changed the form since the
\* submit, or has called handleEdit on another entity.
C27_SaveSuccessKeepsLaterInput ==
    [][\A r \in Handled :
          (/\ r.method \in {"POST", "PUT"} /\ r.stage = "ok"
           /\ (form # r.body \/ (Truthy(editing) /\ editing # r.id))) =>
              UNCHANGED formVars]_vars

---------------------------------------------------------------------------
(* The status indicator of App *)

\* C28: the indicator is off until a check has been handled, and whenever
\* every check issued has been handled it shows the outcome of the check
\* issued last: on when that check got a response, off when it failed.
C28_IndicatorShowsLatestCheck ==
    /\ (\A i \in DOMAIN checks : checks[i] = "sent") => ~isApiOnline
    /\ (checks # << >> /\ \A i \in DOMAIN checks : checks[i] # "sent") =>
           isApiOnline = (checks[Len(checks)] = "ok")

---------------------------------------------------------------------------
(* The grade input and the value zero *)

\* C29: in the enrollment form, handleChange on nota stores the empty string
\* only for a raw input without a digit, and stores the smaller of n and 10
\* for a raw input whose digits read as the number n.
C29_GradeIsDigitsCappedAtTen ==
    [][sec = "inscripciones" =>
          \A v \in RawInputs : HandleChange("nota", Str(v)) =>
              IF DigitsOf(v) = << >>
              THEN form'.nota = EmptyStr
              ELSE form'.nota = Num(IF DecimalValue(DigitsOf(v)) < NotaMax
                                    THEN DecimalValue(DigitsOf(v)) ELSE NotaMax)]_vars

---------------------------------------------------------------------------
(* The notice of a failed teacher delete *)

\* C30: when a delete of a teacher fails, the notice is "No se pudo eliminar
\* el profesor: " followed by the response data of the error when it has
\* some, and "Error desconocido" when it has none.
C30_TeacherDeleteFailureNotice ==
    [][sec = "profesores" =>
          \A r \in Handled : (r.method = "DELETE" /\ r.stage = "err") =>
              error' = IF r.data = Undefined
                       THEN Str(<<"Error desconocido">>)
                       ELSE Str(<<"No se pudo eliminar el profesor: ">> \o r.data.v)]_vars

=============================================================================
